---------------------------- MODULE Spec2Model ----------------------------
(***************************************************************************)
(* NPArray (include/nparray.hpp): an N-dimensional array container with    *)
(* .npy persistence.                                                       *)
(*                                                                         *)
(* Bytes and characters are naturals 0..255 (header text is ASCII), so a   *)
(* file is one flat sequence of bytes, read through a stream position as   *)
(* std::ifstream does.  An element of an array is the sequence of the      *)
(* sizeof(T) bytes it occupies in the memory of the host.                  *)
(***************************************************************************)
EXTENDS Integers, Sequences, FiniteSets, TLC

VARIABLES
    arr,      \* the NPArray object of the program, or NoArray
    file,     \* the bytes of the .npy file on disk, or NoFile
    hostLE,   \* system_is_little_endian() of the host the program runs on
    saved,    \* the array and host of the save that wrote `file` (history)
    last,     \* the last call: its operation, arguments, outcome and result
    swp,      \* the buffer handed to swap_bytes, and what the call did
    mem       \* the length field and the raw buffers of the last load

vars == <<arr, file, hostLE, saved, last, swp, mem>>

----------------------------------------------------------------------------
(* Bounds of the model *)

MaxRank == 2
MaxExtent == 2
MaxSize == 4
MaxIndexRank == 3
MaxIndexExtent == 3
MaxSwapElems == 2
MaxSwapWidth == 17
MaxSwapCalls == 2
MaxHeaderRank == 32709
HeaderRankSpan == 11
MaxCarries == 1

----------------------------------------------------------------------------
(* Sequence helpers *)

Min(a, b) == IF a < b THEN a ELSE b

Reverse(s) == [k \in 1..Len(s) |-> s[Len(s) + 1 - k]]

Repeat(b, n) == [k \in 1..n |-> b]

\* the concatenation of the sequences of ss, in order
RECURSIVE Flatten(_)
Flatten(ss) ==
    IF Len(ss) = 0 THEN <<>>
    ELSE IF Len(ss) = 1 THEN ss[1]
    ELSE LET h == Len(ss) \div 2
         IN  Flatten(SubSeq(ss, 1, h)) \o Flatten(SubSeq(ss, h + 1, Len(ss)))

\* the sum of f[i] for i in 1..n
RECURSIVE SumTo(_, _)
SumTo(f, n) == IF n = 0 THEN 0 ELSE f[n] + SumTo(f, n - 1)

\* the sequences over S of length n
SeqsOfLen(S, n) == [1..n -> S]

\* the sequences over S of length at most n
SeqsUpTo(S, n) == UNION {SeqsOfLen(S, k) : k \in 0..n}

----------------------------------------------------------------------------
(* Dtype registry *)

DTypes == {"CHAR", "UCHAR", "INT16", "INT32", "INT64", "UINT16", "UINT32",
           "UINT64", "FLOAT32", "DOUBLE64", "COMPLEX64", "COMPLEX128"}

\* the error value of a function that throws
Throws == "throws"

\* descr_to_DType that takes the unsigned 16-bit descr for the signed one
descr_to_DType_u2_signed(dtype) ==
    IF dtype = <<98, 49>> THEN "CHAR"                  \* "b1"
    ELSE IF dtype = <<66, 49>> THEN "UCHAR"            \* "B1"
    ELSE IF dtype = <<105, 50>> THEN "INT16"           \* "i2"
    ELSE IF dtype = <<105, 52>> THEN "INT32"           \* "i4"
    ELSE IF dtype = <<105, 56>> THEN "INT64"           \* "i8"
    ELSE IF dtype = <<117, 50>> THEN "INT16"           \* "u2"
    ELSE IF dtype = <<117, 52>> THEN "UINT32"          \* "u4"
    ELSE IF dtype = <<117, 56>> THEN "UINT64"          \* "u8"
    ELSE IF dtype = <<102, 52>> THEN "FLOAT32"         \* "f4"
    ELSE IF dtype = <<102, 56>> THEN "DOUBLE64"        \* "f8"
    ELSE IF dtype = <<99, 56>> THEN "COMPLEX64"        \* "c8"
    ELSE IF dtype = <<99, 49, 54>> THEN "COMPLEX128"   \* "c16"
    ELSE Throws

descr_to_DType(dtype) ==
    IF dtype = <<98, 49>> THEN "CHAR"                  \* "b1"
    ELSE IF dtype = <<66, 49>> THEN "UCHAR"            \* "B1"
    ELSE IF dtype = <<105, 50>> THEN "INT16"           \* "i2"
    ELSE IF dtype = <<105, 52>> THEN "INT32"           \* "i4"
    ELSE IF dtype = <<105, 56>> THEN "INT64"           \* "i8"
    ELSE IF dtype = <<117, 50>> THEN "UINT16"          \* "u2"
    ELSE IF dtype = <<117, 52>> THEN "UINT32"          \* "u4"
    ELSE IF dtype = <<117, 56>> THEN "UINT64"          \* "u8"
    ELSE IF dtype = <<102, 52>> THEN "FLOAT32"         \* "f4"
    ELSE IF dtype = <<102, 56>> THEN "DOUBLE64"        \* "f8"
    ELSE IF dtype = <<99, 56>> THEN "COMPLEX64"        \* "c8"
    ELSE IF dtype = <<99, 49, 54>> THEN "COMPLEX128"   \* "c16"
    ELSE Throws

DType_to_descr(dtype) ==
    IF dtype = "CHAR" THEN <<98, 49>>
    ELSE IF dtype = "UCHAR" THEN <<66, 49>>
    ELSE IF dtype = "INT16" THEN <<105, 50>>
    ELSE IF dtype = "INT32" THEN <<105, 52>>
    ELSE IF dtype = "INT64" THEN <<105, 56>>
    ELSE IF dtype = "UINT16" THEN <<117, 50>>
    ELSE IF dtype = "UINT32" THEN <<117, 52>>
    ELSE IF dtype = "UINT64" THEN <<117, 56>>
    ELSE IF dtype = "FLOAT32" THEN <<102, 52>>
    ELSE IF dtype = "DOUBLE64" THEN <<102, 56>>
    ELSE IF dtype = "COMPLEX64" THEN <<99, 56>>
    ELSE <<99, 49, 54>>

size_of_DType(dtype) ==
    IF dtype = "CHAR" THEN 1
    ELSE IF dtype = "UCHAR" THEN 1
    ELSE IF dtype = "INT16" THEN 2
    ELSE IF dtype = "INT32" THEN 4
    ELSE IF dtype = "INT64" THEN 8
    ELSE IF dtype = "UINT16" THEN 2
    ELSE IF dtype = "UINT32" THEN 4
    ELSE IF dtype = "UINT64" THEN 8
    ELSE IF dtype = "FLOAT32" THEN 4
    ELSE IF dtype = "DOUBLE64" THEN 8
    ELSE IF dtype = "COMPLEX64" THEN 8
    ELSE 16

\* std::complex<float> and std::complex<double>: two components, real first
IsComplex(dtype) == dtype \in {"COMPLEX64", "COMPLEX128"}

----------------------------------------------------------------------------
(* Endianness utility *)

swap_two_bytes(bytes) == <<bytes[2], bytes[1]>>

\* swap_four_bytes that exchanges the outer two bytes only
swap_four_bytes_outer(bytes) == <<bytes[4], bytes[2], bytes[3], bytes[1]>>

swap_four_bytes(bytes) == <<bytes[4], bytes[3], bytes[2], bytes[1]>>

swap_eight_bytes(bytes) ==
    <<bytes[8], bytes[7], bytes[6], bytes[5],
      bytes[4], bytes[3], bytes[2], bytes[1]>>

swap_sixteen_bytes(bytes) ==
    <<bytes[16], bytes[15], bytes[14], bytes[13],
      bytes[12], bytes[11], bytes[10], bytes[9],
      bytes[8], bytes[7], bytes[6], bytes[5],
      bytes[4], bytes[3], bytes[2], bytes[1]>>

\* one iteration of the loop of swap_bytes, on the element_size bytes at data + i
SwapElement(bytes, element_size) ==
    IF element_size = 1 THEN bytes
    ELSE IF element_size = 2 THEN swap_two_bytes(bytes)
    ELSE IF element_size = 4 THEN swap_four_bytes(bytes)
    ELSE IF element_size = 8 THEN swap_eight_bytes(bytes)
    ELSE swap_sixteen_bytes(bytes)

SupportedWidth(element_size) == element_size \in {1, 2, 4, 8, 16}

\* swap_bytes(data, n_elements, element_size): the loop runs once for each
\* i = 0, element_size, 2*element_size, ... below n_elements * element_size,
\* and an unsupported width throws in its first iteration, before any byte
\* is written.  data holds at least n_elements * element_size bytes.
swap_bytes(data, n_elements, element_size) ==
    LET number_of_bytes == n_elements * element_size
    IN  IF number_of_bytes = 0 THEN [err |-> FALSE, data |-> data]
        ELSE IF ~SupportedWidth(element_size) THEN [err |-> TRUE, data |-> data]
        ELSE [err |-> FALSE,
              data |->
                Flatten([e \in 1..n_elements |->
                           SwapElement(SubSeq(data, (e - 1) * element_size + 1,
                                              e * element_size), element_size)])
                \o SubSeq(data, number_of_bytes + 1, Len(data))]

----------------------------------------------------------------------------
(* Integers in memory *)

RECURSIVE Pow256(_)
Pow256(k) == IF k = 0 THEN 1 ELSE 256 * Pow256(k - 1)

\* the width bytes an unsigned integer v occupies in the memory of the host,
\* lowest address first
MemBytes(v, width, isLE) ==
    LET le == [k \in 1..width |-> (v \div Pow256(k - 1)) % 256]
    IN  IF isLE THEN le ELSE Reverse(le)

\* the unsigned integer the host reads from the bytes at an address
RECURSIVE LittleValue(_)
LittleValue(bytes) ==
    IF Len(bytes) = 0 THEN 0
    ELSE bytes[1] + 256 * LittleValue(Tail(bytes))

MemValue(bytes, isLE) ==
    IF isLE THEN LittleValue(bytes) ELSE LittleValue(Reverse(bytes))

----------------------------------------------------------------------------
(* Header text *)

Magic == <<147, 78, 85, 77, 80, 89>>                       \* "\x93NUMPY"

TxtDescrOpen == <<123, 39, 100, 101, 115, 99, 114, 39, 58, 32, 39>>
                                                           \* "{'descr': '"
TxtDescrClose == <<39, 44, 32>>                            \* "', "

TxtFortranKey == <<39, 102, 111, 114, 116, 114, 97, 110, 95, 111, 114, 100,
                   101, 114, 39, 58, 32>>                  \* "'fortran_order': "

TxtFalseComma == <<70, 97, 108, 115, 101, 44, 32>>         \* "False, "

TxtTrueComma == <<84, 114, 117, 101, 44, 32>>              \* "True, "

TxtFalse == <<70, 97, 108, 115, 101>>                      \* "False"

TxtShapeOpen == <<39, 115, 104, 97, 112, 101, 39, 58, 32, 40>>
                                                           \* "'shape': ("
TxtShapeClose == <<41, 44, 32, 125>>                       \* "), }"

TxtDescrKey == <<39, 100, 101, 115, 99, 114, 39, 58, 32>>  \* "'descr': "

ChNewline == <<10>>

ChComma == <<44>>

ChLess == <<60>>

ChGreater == <<62>>

ChOpen == <<40>>

ChClose == <<41>>

\* std::to_string of a size_t
RECURSIVE to_string(_)
to_string(n) ==
    IF n < 10 THEN <<48 + n>>
    ELSE to_string(n \div 10) \o <<48 + (n % 10)>>

\* the loop of write_npy over the shape: each extent followed by a comma
ShapeText(shape) ==
    Flatten([k \in 1..Len(shape) |-> to_string(shape[k]) \o ChComma])

\* the header of write_npy before the padding is added
HeaderDict(shape, dtype, c_contiguous, isLE) ==
    TxtDescrOpen \o (IF isLE THEN ChLess ELSE ChGreater)
    \o DType_to_descr(dtype) \o TxtDescrClose
    \o TxtFortranKey \o (IF c_contiguous THEN TxtFalseComma ELSE TxtTrueComma)
    \o TxtShapeOpen \o ShapeText(shape) \o TxtShapeClose

\* beginning_length as first computed: magic, version, 2-byte length, header
BeginningLength(header) == 6 + 2 + 2 + Len(header)

PaddingNeeded(header) == 64 - (BeginningLength(header) % 64)

\* the version choice left out: always version 1
MajorVersion_always_one(header) == 1

MajorVersion(header) ==
    IF BeginningLength(header) + PaddingNeeded(header) > 65535 THEN 2 ELSE 1

\* the header with padding_needed - 1 spaces and a newline appended
PaddedHeader(header) ==
    header \o Repeat(32, PaddingNeeded(header) - 1) \o ChNewline

\* the bytes of the length field as emitted: len is cast to uint16_t or
\* uint32_t, swapped in place when the host is not little-endian, and its
\* bytes are written lowest address first
LengthField(padded, major_version, isLE) ==
    IF major_version = 1
    THEN LET len == MemBytes(Len(padded) % 65536, 2, isLE)
         IN  IF ~isLE THEN swap_two_bytes(len) ELSE len
    ELSE LET len == MemBytes(Len(padded), 4, isLE)
         IN  IF ~isLE THEN swap_four_bytes(len) ELSE len

\* shape[lo] * ... * shape[hi], lo <= hi, split in halves so that a shape of
\* many axes does not nest the evaluation as deep as it is long
RECURSIVE ProductOf(_, _, _)
ProductOf(shape, lo, hi) ==
    IF lo = hi THEN shape[lo]
    ELSE LET mid == (lo + hi) \div 2
         IN  ProductOf(shape, lo, mid) * ProductOf(shape, mid + 1, hi)

\* the product of the extents, which every loop `ne = shape[0]; ne *= shape[i]`
\* computes; the shape is not empty
NumElements(shape) == ProductOf(shape, 1, Len(shape))

\* write_npy: the bytes of the file.  data_ptr holds the bytes of the
\* elements in the memory of the host; the shape is not empty.
write_npy(data_ptr, shape, dtype, c_contiguous, isLE) ==
    LET n_elements == NumElements(shape)
        header == HeaderDict(shape, dtype, c_contiguous, isLE)
        major_version == MajorVersion(header)
        padded == PaddedHeader(header)
        n_bytes == n_elements * size_of_DType(dtype)
    IN  Magic \o <<major_version, 0>>
        \o LengthField(padded, major_version, isLE)
        \o padded
        \o SubSeq(data_ptr, 1, n_bytes)

----------------------------------------------------------------------------
(* Reading: the stream, uninitialised memory, std::string *)

\* the bytes file.read(buf, n) stores: those left in the file, at most n;
\* nothing once a read has failed
StreamRead(f, st, n) ==
    IF st.good THEN SubSeq(f, st.pos + 1, Min(st.pos + n, Len(f))) ELSE <<>>

\* the stream after file.read(buf, n): a short read sets failbit
StreamAfter(f, st, n) ==
    LET got == StreamRead(f, st, n)
    IN  [pos |-> st.pos + Len(got), good |-> st.good /\ Len(got) = n]

\* n bytes of memory never written: indeterminate, here the bytes of junk
\* followed by a NUL, repeated
Uninit(n, junk) ==
    LET u == junk \o <<0>>
    IN  [k \in 1..n |-> u[((k - 1) % Len(u)) + 1]]

\* a buffer of n bytes from new char[n] after a read stored got in it
Buffer(got, n, junk) == got \o Uninit(n - Len(got), junk)

\* std::string(const char*): the bytes before the first NUL
UpToNul(bytes) ==
    LET nuls == {k \in 1..Len(bytes) : bytes[k] = 0}
    IN  IF nuls = {} THEN bytes
        ELSE SubSeq(bytes, 1, (CHOOSE k \in nuls : \A j \in nuls : k <= j) - 1)

\* std::string::npos; as -1, npos + k is k - 1, as it is in size_t arithmetic
NPOS == 0 - 1

\* std::string::find: the first position (from 0) of pat in h, or npos
Find(h, pat) ==
    LET hits == {i \in 0..(Len(h) - Len(pat)) :
                   h[i + 1] = pat[1] /\ SubSeq(h, i + 1, i + Len(pat)) = pat}
    IN  IF hits = {} THEN NPOS
        ELSE CHOOSE i \in hits : \A j \in hits : i <= j

\* the loops `while (true) { if (header[loc1 + i] != ' ') { if (== stop) break;
\* else str += header[loc1 + i]; } i++; }` from position pos: the characters
\* before the first stop, spaces left out.  header[size()] is the NUL, which
\* is no stop, and the next index is outside the string: ub.
RECURSIVE ScanToken(_, _, _)
ScanToken(header, pos, stop) ==
    IF pos >= Len(header) THEN [ub |-> TRUE, str |-> <<>>]
    ELSE LET c == header[pos + 1]
         IN  IF c = 32 THEN ScanToken(header, pos + 1, stop)
             ELSE IF c = stop THEN [ub |-> FALSE, str |-> <<>>]
             ELSE LET r == ScanToken(header, pos + 1, stop)
                  IN  [ub |-> r.ub, str |-> <<c>> \o r.str]

IsSpaceCh(c) == c \in {32, 9, 10, 11, 12, 13}

IsDigitCh(c) == c \in 48..57

RECURSIVE SkipSpaces(_)
SkipSpaces(str) ==
    IF Len(str) > 0 /\ IsSpaceCh(str[1]) THEN SkipSpaces(Tail(str)) ELSE str

RECURSIVE DigitPrefix(_)
DigitPrefix(str) ==
    IF Len(str) > 0 /\ IsDigitCh(str[1])
    THEN <<str[1]>> \o DigitPrefix(Tail(str)) ELSE <<>>

RECURSIVE SkipZeros(_)
SkipZeros(str) ==
    IF Len(str) > 1 /\ str[1] = 48 THEN SkipZeros(Tail(str)) ELSE str

RECURSIVE DigitsValue(_)
DigitsValue(ds) ==
    IF Len(ds) = 0 THEN 0
    ELSE 10 * DigitsValue(SubSeq(ds, 1, Len(ds) - 1)) + (ds[Len(ds)] - 48)

\* whether the decimal digits ds (no leading zero) exceed INT_MAX, 2147483647
ExceedsInt(ds) ==
    \/ Len(ds) > 10
    \/ /\ Len(ds) = 10
       /\ LET hi == DigitsValue(SubSeq(ds, 1, 9))
          IN  hi > 214748364 \/ (hi = 214748364 /\ ds[10] > 55)

\* std::stoi: leading white space, an optional sign, then digits; what
\* follows the digits is ignored.  No digits: std::invalid_argument; a value
\* outside int: std::out_of_range.
stoi(str) ==
    LET s1 == SkipSpaces(str)
        neg == Len(s1) > 0 /\ s1[1] = 45
        s2 == IF Len(s1) > 0 /\ s1[1] \in {43, 45} THEN Tail(s1) ELSE s1
        ds == DigitPrefix(s2)
        sig == SkipZeros(ds)
    IN  IF Len(ds) = 0 THEN [err |-> "invalid_argument", val |-> 0]
        ELSE IF neg /\ sig = <<50, 49, 52, 55, 52, 56, 51, 54, 52, 56>>
             THEN [err |-> "none", val |-> (0 - 2147483647) - 1]
        ELSE IF ExceedsInt(sig) THEN [err |-> "out_of_range", val |-> 0]
        ELSE [err |-> "none",
              val |-> IF neg THEN 0 - DigitsValue(sig) ELSE DigitsValue(sig)]

\* the loop of load_npy over header[loc1 .. loc2): the texts between commas,
\* the empty ones dropped, and what is left after the last comma
RECURSIVE SplitShape(_, _)
SplitShape(text, temp) ==
    IF Len(text) = 0 THEN (IF Len(temp) > 0 THEN <<temp>> ELSE <<>>)
    ELSE IF text[1] # 44 THEN SplitShape(Tail(text), temp \o <<text[1]>>)
    ELSE IF Len(temp) > 0 THEN <<temp>> \o SplitShape(Tail(text), <<>>)
    ELSE SplitShape(Tail(text), <<>>)

----------------------------------------------------------------------------
(* Decode *)

\* the outcome of a call that ran into undefined behaviour
UB == "ub"

\* the result of load_npy when it throws or its behaviour is undefined
LoadFailed(out, width, length_of_header, header_read, allocated) ==
    [out |-> out, shape |-> <<>>, dtype |-> Throws, c_contiguous |-> FALSE,
     data |-> <<>>, width |-> width, length_of_header |-> length_of_header,
     header_read |-> header_read, allocated |-> allocated, released |-> <<>>]

\* the length of the header as load_npy decodes it from the bytes it read
\* into length_temp (zero-initialised, so bytes not read are 0):
\* swap_bytes(&length_temp, 2, 1) and swap_bytes(&length_temp, 4, 1) are
\* called with two, or four, elements of one byte each
DecodeLength(got, width, isLE) ==
    LET in_memory == got \o Repeat(0, width - Len(got))
        swapped == IF ~isLE THEN swap_bytes(in_memory, width, 1).data
                   ELSE in_memory
    IN  MemValue(swapped, isLE)

\* the shape load_npy parses from the header: [out, shape]
ParseShape(header) ==
    LET open == Find(header, ChOpen)
        loc2 == Find(header, ChClose)
        loc1 == open + 1
    IN  IF loc1 = loc2 THEN [out |-> "ok", shape |-> <<1>>]
        ELSE IF loc2 = NPOS THEN [out |-> UB, shape |-> <<>>]
        ELSE LET texts == SplitShape(SubSeq(header, loc1 + 1, loc2), <<>>)
                 ints == [k \in 1..Len(texts) |-> stoi(texts[k])]
             IN  IF \E k \in 1..Len(texts) : ints[k].err # "none"
                 THEN [out |-> "stoi_error", shape |-> <<>>]
                 ELSE [out |-> "ok",
                       shape |-> [k \in 1..Len(texts) |-> ints[k].val]]

\* n_elements of load_npy, where a negative extent stands for the size_t
\* the int converts to
HugeProduct(shape) ==
    /\ \E k \in 1..Len(shape) : shape[k] < 0
    /\ \A k \in 1..Len(shape) : shape[k] # 0

\* load_npy(fname, data_ptr, shape, dtype, c_contiguous) on a file holding
\* the bytes f, on a host of the given byte order; junk is what memory that
\* was never written holds.
load_npy(f, isLE, junk) ==
    LET st0 == [pos |-> 0, good |-> TRUE]
        magic_string == Buffer(StreamRead(f, st0, 6), 6, junk)
        st1 == StreamAfter(f, st0, 6)
        major_got == StreamRead(f, st1, 1)
        major_verison == IF Len(major_got) = 1 THEN major_got[1] ELSE 0
        st2 == StreamAfter(f, st1, 1)
        st3 == StreamAfter(f, st2, 1)
        \* a char is signed: the bytes 128..255 are negative
        width == IF major_verison = 1 THEN 2
                 ELSE IF major_verison >= 2 /\ major_verison < 128 THEN 4
                 ELSE 0
        length_of_header ==
            IF width = 0 THEN 0
            ELSE DecodeLength(StreamRead(f, st3, width), width, isLE)
        st4 == StreamAfter(f, st3, width)
        header_got == StreamRead(f, st4, length_of_header)
        st5 == StreamAfter(f, st4, length_of_header)
        \* std::string header(header_char): header_char has no terminating
        \* NUL, so the string runs on into the memory behind the buffer
        \* (and, after a short read, through the part of it never written)
        header == UpToNul(header_got \o junk \o <<0>>)
        f_loc == Find(header, TxtFortranKey) + 17
        f_order == ScanToken(header, f_loc, 44)
        d_loc == Find(header, TxtDescrKey) + 9
        data_is_little_endian ==
            ~(d_loc + 1 < Len(header) /\ header[d_loc + 2] = 62)
        descr == ScanToken(header, d_loc + 2, 39)
        dtype == descr_to_DType(descr.str)
        element_size == size_of_DType(dtype)
        parsed == ParseShape(header)
        shape == parsed.shape
        n_elements == NumElements(shape)
        n_bytes_to_read == n_elements * element_size
        data_got == StreamRead(f, st5, n_bytes_to_read)
        data == Buffer(data_got, n_bytes_to_read, junk)
        swapped == IF isLE # data_is_little_endian
                   THEN swap_bytes(data, n_elements, element_size).data
                   ELSE data
        \* the exits before line 731 release nothing
        failed(out) == LoadFailed(out, width, length_of_header, Len(header_got),
                                  <<"magic_string", "header_char">>)
    IN  IF magic_string # Magic
        THEN LoadFailed("invalid_file", 0, 0, 0, <<"magic_string">>)
        ELSE IF f_order.ub \/ d_loc + 1 > Len(header) \/ descr.ub
             THEN failed(UB)
        ELSE IF dtype = Throws THEN failed("unknown_dtype")
        ELSE IF parsed.out # "ok" THEN failed(parsed.out)
        ELSE IF Len(shape) = 0 THEN failed(UB)
        ELSE IF HugeProduct(shape) THEN failed("bad_alloc")
        ELSE [out |-> "ok", shape |-> shape, dtype |-> dtype,
              c_contiguous |-> (f_order.str = TxtFalse),
              data |-> swapped, width |-> width,
              length_of_header |-> length_of_header,
              header_read |-> Len(header_got),
              allocated |-> <<"magic_string", "header_char", "data">>,
              released |-> <<"magic_string", "header_char">>]

----------------------------------------------------------------------------
(* NPArray<T> *)

\* no array constructed yet
NoArray ==
    [T |-> "none", shape_ |-> <<>>, data_ |-> <<>>, c_continuous_ |-> FALSE,
     dimensions_ |-> 0, origin |-> "none"]

\* T(): the value-initialised element, sizeof(T) zero bytes
ZeroElement(T) == Repeat(0, size_of_DType(T))

\* the result of a constructor or of load that throws
NoObject(out) == [out |-> out, arr |-> NoArray]

\* NPArray(): no member is initialised; dimensions_ and c_continuous_ hold
\* indeterminate values
NPArray_default(T, dims, c) ==
    [T |-> T, shape_ |-> <<>>, data_ |-> <<>>, c_continuous_ |-> c,
     dimensions_ |-> dims, origin |-> "default"]

\* data_.resize(ne): the first ne elements kept, zero elements appended
Resize(data, T, ne) ==
    [k \in 1..ne |-> IF k <= Len(data) THEN data[k] ELSE ZeroElement(T)]

\* NPArray(init_shape, c_continuous)
NPArray_shape(T, init_shape, c_continuous) ==
    IF Len(init_shape) > 0
    THEN [out |-> "ok",
          arr |-> [T |-> T, shape_ |-> init_shape,
                   data_ |-> Resize(<<>>, T, NumElements(init_shape)),
                   c_continuous_ |-> c_continuous,
                   dimensions_ |-> Len(init_shape), origin |-> "shape"]]
    ELSE NoObject("shape_error")

\* NPArray(data, init_shape, c_continuous)
NPArray_data(T, data, init_shape, c_continuous) ==
    IF Len(init_shape) > 0
    THEN IF NumElements(init_shape) # Len(data) THEN NoObject("shape_error")
         ELSE [out |-> "ok",
               arr |-> [T |-> T, shape_ |-> init_shape, data_ |-> data,
                        c_continuous_ |-> c_continuous,
                        dimensions_ |-> Len(init_shape), origin |-> "data"]]
    ELSE NoObject("shape_error")

\* reinterpret_cast<T*>(data_ptr) .. + ne: the bytes as ne elements
Elements(bytes, T, ne) ==
    [k \in 1..ne |-> SubSeq(bytes, (k - 1) * size_of_DType(T) + 1,
                            k * size_of_DType(T))]

\* NPArray<T>::load(fname) from the call of load_npy on: T gives the
\* expected DType, r is what load_npy returned or threw
LoadChecked(T, r) ==
    IF r.out # "ok" THEN NoObject(r.out)
    ELSE IF T # r.dtype THEN NoObject("dtype_mismatch")
    ELSE IF Len(r.shape) < 1 THEN NoObject("shape_error")
    ELSE LET ne == NumElements(r.shape)
             made == NPArray_data(T, Elements(r.data, T, ne), r.shape, TRUE)
         IN  IF made.out # "ok" THEN made
             ELSE [out |-> "ok",
                   arr |-> [made.arr EXCEPT !.c_continuous_ = r.c_contiguous,
                                            !.origin = "load"]]

\* NPArray<T>::load(fname)
NPArray_load(T, f, isLE, junk) == LoadChecked(T, load_npy(f, isLE, junk))

\* the buffers when NPArray<T>::load returns or throws: `delete[] data_ptr`
\* is reached only when nothing has thrown
LoadMemory(T, r) ==
    [width |-> r.width, length_of_header |-> r.length_of_header,
     header_read |-> r.header_read, allocated |-> r.allocated,
     released |-> IF LoadChecked(T, r).out = "ok"
                  THEN r.released \o <<"data">> ELSE r.released]

\* reshape that takes any shape of rank >= 1, the element count not compared
reshape_unchecked(a, new_shape) ==
    IF Len(new_shape) < 1 THEN [out |-> "shape_error", arr |-> a]
    ELSE [out |-> "ok",
          arr |-> [a EXCEPT !.shape_ = new_shape,
                            !.dimensions_ = Len(new_shape)]]

\* reshape(new_shape): [out, arr]
reshape(a, new_shape) ==
    IF Len(new_shape) < 1 THEN [out |-> "shape_error", arr |-> a]
    ELSE IF NumElements(new_shape) = Len(a.data_)
         THEN [out |-> "ok",
               arr |-> [a EXCEPT !.shape_ = new_shape,
                                 !.dimensions_ = Len(new_shape)]]
         ELSE [out |-> "shape_error", arr |-> a]

\* reallocate that sets the shape and leaves the buffer as it is
reallocate_keeps_buffer(a, new_shape) ==
    IF Len(new_shape) < 1 THEN [out |-> "shape_error", arr |-> a]
    ELSE [out |-> "ok",
          arr |-> [a EXCEPT !.shape_ = new_shape,
                            !.dimensions_ = Len(new_shape)]]

\* reallocate(new_shape): [out, arr]
reallocate(a, new_shape) ==
    IF Len(new_shape) < 1 THEN [out |-> "shape_error", arr |-> a]
    ELSE [out |-> "ok",
          arr |-> [a EXCEPT !.shape_ = new_shape,
                            !.dimensions_ = Len(new_shape),
                            !.data_ = Resize(a.data_, a.T, NumElements(new_shape))]]

\* fill(val)
fill(a, val) == [a EXCEPT !.data_ = [k \in 1..Len(a.data_) |-> val]]

----------------------------------------------------------------------------
(* Layout engine *)

\* the first i (from 1) the loop of check_indices stops at, or 0: it stops
\* where indices[i] >= shape_[i], and where shape_ has no element i
FirstBadIndex(a, indices) ==
    LET bad == {i \in 1..a.dimensions_ :
                  i > Len(a.shape_) \/ indices[i] >= a.shape_[i]}
    IN  IF bad = {} THEN 0 ELSE CHOOSE i \in bad : \A j \in bad : i <= j

\* check_indices(const std::vector<size_t>&): "ok", or what it throws
check_indices(a, indices) ==
    IF Len(indices) # a.dimensions_ THEN "index_error"
    ELSE LET i == FirstBadIndex(a, indices)
         IN  IF i = 0 THEN "ok"
             ELSE IF i > Len(a.shape_) THEN UB
             ELSE "out_of_range"

\* check_indices(const std::array<size_t, D>&)
check_indices_array(a, indices) ==
    IF Len(indices) # a.dimensions_ THEN "index_error"
    ELSE LET i == FirstBadIndex(a, indices)
         IN  IF i = 0 THEN "ok"
             ELSE IF i > Len(a.shape_) THEN UB
             ELSE "out_of_range"

\* the loop `for (i = dimensions_ - 1; i > 0; i--)` from i (counted from 0)
RECURSIVE CLoop(_, _, _, _, _)
CLoop(shape, indices, i, coeff, indx) ==
    IF i > 0
    THEN LET c == coeff * shape[i + 1]
         IN  CLoop(shape, indices, i - 1, c, indx + c * indices[i])
    ELSE indx

\* the loop `for (i = 0; i < dimensions_ - 1; i++)` from i (counted from 0)
RECURSIVE FLoop(_, _, _, _, _, _)
FLoop(shape, indices, i, dims, coeff, indx) ==
    IF i < dims - 1
    THEN LET c == coeff * shape[i + 1]
         IN  FLoop(shape, indices, i + 1, dims, c, indx + c * indices[i + 2])
    ELSE indx

\* c_continuous_index that lets the first axis run fastest
c_continuous_index_first_fastest(a, indices) ==
    FLoop(a.shape_, indices, 0, a.dimensions_, 1, indices[1])

\* c_continuous_index(const std::vector<size_t>&)
c_continuous_index(a, indices) ==
    CLoop(a.shape_, indices, a.dimensions_ - 1, 1, indices[a.dimensions_])

\* fortran_continuous_index whose coefficient is the extent of one axis, not
\* the product of the extents so far
fortran_continuous_index_one_extent(a, indices) ==
    indices[1]
    + SumTo([i \in 1..(a.dimensions_ - 1) |-> a.shape_[i] * indices[i + 1]],
            a.dimensions_ - 1)

\* fortran_continuous_index(const std::vector<size_t>&)
fortran_continuous_index(a, indices) ==
    FLoop(a.shape_, indices, 0, a.dimensions_, 1, indices[1])

\* c_continuous_index(const std::array<size_t, D>&)
c_continuous_index_array(a, indices) ==
    CLoop(a.shape_, indices, a.dimensions_ - 1, 1, indices[a.dimensions_])

\* fortran_continuous_index(const std::array<size_t, D>&)
fortran_continuous_index_array(a, indices) ==
    FLoop(a.shape_, indices, 0, a.dimensions_, 1, indices[1])

\* the index functions read indices[dimensions_ - 1] or indices[0]: defined
\* only for a tuple that has them
HasIndexed(a, indices) == a.dimensions_ >= 1 /\ Len(indices) >= a.dimensions_

\* linear_index(indices), in the vector or the variadic form: [out, addr];
\* no address is computed when check_indices throws
linear_index(a, indices, form) ==
    LET chk == IF form = "vector" THEN check_indices(a, indices)
               ELSE check_indices_array(a, indices)
    IN  IF chk # "ok" THEN [out |-> chk, addr |-> 0 - 1]
        ELSE IF ~HasIndexed(a, indices) THEN [out |-> UB, addr |-> 0 - 1]
        ELSE [out |-> "ok",
              addr |-> IF a.c_continuous_
                       THEN (IF form = "vector"
                             THEN c_continuous_index(a, indices)
                             ELSE c_continuous_index_array(a, indices))
                       ELSE (IF form = "vector"
                             THEN fortran_continuous_index(a, indices)
                             ELSE fortran_continuous_index_array(a, indices))]

\* operator()(indices), in the vector or the variadic form: the element it
\* refers to, [out, addr]; data_[indx] outside the buffer is undefined
element_ref(a, indices, form) ==
    LET li == linear_index(a, indices, form)
    IN  IF li.out = "ok" /\ li.addr >= Len(a.data_)
        THEN [out |-> UB, addr |-> li.addr]
        ELSE li

----------------------------------------------------------------------------
(* Inputs *)

Extents == 0..MaxExtent

SizeOf(shape) == IF Len(shape) = 0 THEN 0 ELSE NumElements(shape)

\* the shapes handed to constructors, reshape and reallocate (the empty one
\* among them), as far as the array fits MaxSize elements
Shapes == {s \in SeqsUpTo(Extents, MaxRank) : SizeOf(s) <= MaxSize}

\* the index tuples handed to the container
Tuples == SeqsUpTo(Extents, MaxRank)

Forms == {"vector", "variadic"}

Seeds == {0, 1}

\* an element of type T: zero, or sizeof(T) bytes that all differ
Elem(T, v) ==
    IF v = 0 THEN ZeroElement(T)
    ELSE [k \in 1..size_of_DType(T) |-> 16 * (v - 1) + k]

ElemSet(T) == {Elem(T, v) : v \in Seeds}

\* the element sequences of the arrays that are saved: n elements, all the
\* same or alternating
SavedData(T, n) ==
    {[k \in 1..n |-> Elem(T, 1)], [k \in 1..n |-> Elem(T, k % 2)]}

\* what memory that was never written may hold
JunkSeqs == {<<>>, <<41>>, <<40, 55, 44, 41, 39, 44>>}

\* the values an uninitialised dimensions_ may hold
JunkDims == 0..(MaxRank + 1)

----------------------------------------------------------------------------
(* State *)

\* no file written yet; carried counts the moves of the file between hosts
NoFile == [exists |-> FALSE, bytes |-> <<>>, carried |-> 0]

NoSaved == [T |-> "none", shape |-> <<>>, data |-> <<>>, c_continuous |-> FALSE,
            hostLE |-> TRUE]

NoCall ==
    [op |-> "none", form |-> "none", T |-> "none", arg |-> <<>>,
     out |-> "none", addr |-> 0 - 1, val |-> <<>>]

\* what the last load did with the length field and with the raw buffers:
\* the bytes of the field it read, the header length it decoded, the header
\* bytes the stream gave it, and the buffers it allocated and released, in
\* order
NoMem ==
    [width |-> 0, length_of_header |-> 0, header_read |-> 0,
     allocated |-> <<>>, released |-> <<>>]

NoSwap ==
    [data |-> <<>>, n |-> 0, w |-> 0, orig |-> <<>>, err |-> FALSE, calls |-> 0,
     via |-> "none"]

Call(op, form, T, arg, out, addr, val) ==
    [op |-> op, form |-> form, T |-> T, arg |-> arg, out |-> out,
     addr |-> addr, val |-> val]

----------------------------------------------------------------------------
(* Operations of the container *)

\* NPArray<T> a;
DefaultConstruct(t, dims, c) ==
    /\ arr' = NPArray_default(t, dims, c)
    /\ last' = Call("default", "none", t, <<>>, "ok", 0 - 1, <<>>)
    /\ UNCHANGED <<file, hostLE, saved, swp, mem>>

\* NPArray<T> a(init_shape, c_continuous); a constructor that throws leaves
\* no object, and the array the program had is the one it still has
ConstructShape(t, s, c) ==
    /\ LET r == NPArray_shape(t, s, c)
       IN  /\ arr' = IF r.out = "ok" THEN r.arr ELSE arr
           /\ last' = Call("construct_shape", "none", t, s, r.out, 0 - 1, <<>>)
    /\ UNCHANGED <<file, hostLE, saved, swp, mem>>

\* NPArray<T> a(data, init_shape, c_continuous);
ConstructData(t, d, s, c) ==
    /\ LET r == NPArray_data(t, d, s, c)
       IN  /\ arr' = IF r.out = "ok" THEN r.arr ELSE arr
           /\ last' = Call("construct_data", "none", t, s, r.out, 0 - 1, <<>>)
    /\ UNCHANGED <<file, hostLE, saved, swp, mem>>

Reshape(s) ==
    /\ arr.origin # "none"
    /\ LET r == reshape(arr, s)
       IN  /\ arr' = r.arr
           /\ last' = Call("reshape", "none", arr.T, s, r.out, 0 - 1, <<>>)
    /\ UNCHANGED <<file, hostLE, saved, swp, mem>>

Reallocate(s) ==
    /\ arr.origin # "none"
    /\ LET r == reallocate(arr, s)
       IN  /\ arr' = r.arr
           /\ last' = Call("reallocate", "none", arr.T, s, r.out, 0 - 1, <<>>)
    /\ UNCHANGED <<file, hostLE, saved, swp, mem>>

Fill(v) ==
    /\ arr.origin # "none"
    /\ arr' = fill(arr, v)
    /\ last' = Call("fill", "none", arr.T, <<>>, "ok", 0 - 1, v)
    /\ UNCHANGED <<file, hostLE, saved, swp, mem>>

\* a.linear_index(indices) and a.linear_index(i, j, ...)
LinearIndex(form, indices) ==
    /\ arr.origin # "none"
    /\ LET r == linear_index(arr, indices, form)
       IN  last' = Call("linear_index", form, arr.T, indices, r.out, r.addr, <<>>)
    /\ UNCHANGED <<arr, file, hostLE, saved, swp, mem>>

\* x = a(indices) and x = a(i, j, ...)
ReadAt(form, indices) ==
    /\ arr.origin # "none"
    /\ LET r == element_ref(arr, indices, form)
       IN  last' = Call("read", form, arr.T, indices, r.out, r.addr,
                        IF r.out = "ok" THEN arr.data_[r.addr + 1] ELSE <<>>)
    /\ UNCHANGED <<arr, file, hostLE, saved, swp, mem>>

\* a(indices) = v and a(i, j, ...) = v
WriteAt(form, indices, v) ==
    /\ arr.origin # "none"
    /\ LET r == element_ref(arr, indices, form)
       IN  /\ arr' = IF r.out = "ok"
                     THEN [arr EXCEPT !.data_[r.addr + 1] = v]
                     ELSE arr
           /\ last' = Call("write", form, arr.T, indices, r.out, r.addr, v)
    /\ UNCHANGED <<file, hostLE, saved, swp, mem>>

\* x = a[i]: data_[i] unchecked, undefined outside the buffer
FlatRead(i) ==
    /\ arr.origin # "none"
    /\ last' = IF i < Len(arr.data_)
               THEN Call("flat_read", "none", arr.T, <<i>>, "ok", i, arr.data_[i + 1])
               ELSE Call("flat_read", "none", arr.T, <<i>>, UB, i, <<>>)
    /\ UNCHANGED <<arr, file, hostLE, saved, swp, mem>>

----------------------------------------------------------------------------
(* Operations of the codec *)

\* a.save(fname).  write_npy reads shape[0]: with an empty shape (a default
\* constructed array) the behaviour is undefined, and nothing has been
\* written by then.
Save ==
    /\ arr.origin # "none"
    /\ IF Len(arr.shape_) = 0
       THEN /\ last' = Call("save", "none", arr.T, <<>>, UB, 0 - 1, <<>>)
            /\ UNCHANGED <<file, saved>>
       ELSE /\ file' = [file EXCEPT
                          !.exists = TRUE,
                          !.bytes = write_npy(Flatten(arr.data_), arr.shape_,
                                              arr.T, arr.c_continuous_, hostLE)]
            /\ saved' = [T |-> arr.T, shape |-> arr.shape_, data |-> arr.data_,
                         c_continuous |-> arr.c_continuous_, hostLE |-> hostLE]
            /\ last' = Call("save", "none", arr.T, <<>>, "ok", 0 - 1, <<>>)
    /\ UNCHANGED <<arr, hostLE, swp, mem>>

\* a = NPArray<T>::load(fname); a load that throws returns no array.  A file
\* that cannot be opened reads as no bytes at all.
Load(junk) ==
    /\ \E loaded \in {load_npy(file.bytes, hostLE, junk)}, t \in DTypes :
         LET r == LoadChecked(t, loaded)
         IN  /\ arr' = IF r.out = "ok" THEN r.arr ELSE arr
             /\ last' = Call("load", "none", t, <<>>, r.out, 0 - 1, <<>>)
             /\ mem' = LoadMemory(t, loaded)
    /\ UNCHANGED <<file, hostLE, saved, swp>>

\* the file is carried to a host of the other byte order, where a new
\* process starts with no array
Carry ==
    /\ file.exists
    /\ file.carried < MaxCarries
    /\ file' = [file EXCEPT !.carried = @ + 1]
    /\ hostLE' = ~hostLE
    /\ arr' = NoArray
    /\ last' = Call("carry", "none", "none", <<>>, "ok", 0 - 1, <<>>)
    /\ UNCHANGED <<saved, swp, mem>>

----------------------------------------------------------------------------
(* The codec: an array is saved, the file carried between hosts, and loaded *)

InitCodec ==
    /\ \E t \in DTypes, s \in Shapes \ {<<>>}, c \in BOOLEAN :
         \E d \in SavedData(t, NumElements(s)) :
           arr = NPArray_data(t, d, s, c).arr
    /\ file = NoFile
    /\ hostLE \in BOOLEAN
    /\ saved = NoSaved
    /\ last = NoCall
    /\ swp = NoSwap
    /\ mem = NoMem

\* a call that throws, or whose behaviour is undefined, ends the process
Running == last.out \in {"none", "ok"}

\* a process saves its array, or loads the file once
NextCodec ==
    \/ Running /\ Save
    \/ Carry
    \/ Running /\ file.exists /\ arr.origin # "load"
         /\ \E junk \in JunkSeqs : Load(junk)

SpecCodec == InitCodec /\ [][NextCodec]_vars

----------------------------------------------------------------------------
(* The container: construction, load, reshape, reallocate, fill and element *)
(* writes                                                                    *)

\* the element kind the container is instantiated with
ContainerTypes == {"INT16"}

\* the element sequences handed to the constructor
CtorData(T) == UNION {SavedData(T, n) : n \in 0..MaxSize}

\* the array an earlier run saved
PresetArray ==
    NPArray_data("INT16", <<Elem("INT16", 1), Elem("INT16", 0)>>, <<2>>, FALSE).arr

\* the file on disk when the program starts, written by an earlier run on a
\* little-endian host
PresetFile ==
    [exists |-> TRUE, carried |-> 0,
     bytes |-> write_npy(Flatten(PresetArray.data_), PresetArray.shape_,
                         PresetArray.T, PresetArray.c_continuous_, TRUE)]

PresetSaved ==
    [T |-> PresetArray.T, shape |-> PresetArray.shape_, data |-> PresetArray.data_,
     c_continuous |-> PresetArray.c_continuous_, hostLE |-> TRUE]

Init ==
    /\ arr = NoArray
    /\ file = PresetFile
    /\ saved = PresetSaved
    /\ hostLE \in BOOLEAN
    /\ last = NoCall
    /\ swp = NoSwap
    /\ mem = NoMem

\* no object has been constructed yet
Fresh == arr.origin = "none"

\* one object per run: a constructor or load builds it, the other operations
\* act on it, and an exception that leaves an operation ends the run
Next ==
    \/ Fresh /\ Running
         /\ \E t \in ContainerTypes, dims \in JunkDims, c \in BOOLEAN :
              DefaultConstruct(t, dims, c)
    \/ Fresh /\ Running
         /\ \E t \in ContainerTypes, s \in Shapes, c \in BOOLEAN :
              ConstructShape(t, s, c)
    \/ Fresh /\ Running
         /\ \E t \in ContainerTypes, s \in Shapes, c \in BOOLEAN :
              \E d \in CtorData(t) : ConstructData(t, d, s, c)
    \/ Fresh /\ Running /\ \E junk \in JunkSeqs : Load(junk)
    \/ Running /\ \E s \in Shapes : Reshape(s)
    \/ Running /\ \E s \in Shapes : Reallocate(s)
    \/ Running /\ \E v \in ElemSet(arr.T) : Fill(v)
    \/ Running /\ \E form \in Forms, indices \in Tuples :
         \E v \in ElemSet(arr.T) : WriteAt(form, indices, v)

Spec == Init /\ [][Next]_vars

----------------------------------------------------------------------------
(* Claims about the codec *)

\* the last call loaded, with the element kind T of the array that was
\* saved, the file that save wrote
LoadedSameKind == last.op = "load" /\ file.exists /\ last.T = saved.T

\* the array now held equals the saved one in shape, layout and elements
SameAsSaved ==
    /\ arr.shape_ = saved.shape
    /\ arr.c_continuous_ = saved.c_continuous
    /\ arr.data_ = saved.data

\* the number an element of a scalar kind holds, as the bytes of its value
\* from the least significant one, given the bytes in memory of the host
ScalarValue(bytes, isLE) == IF isLE THEN bytes ELSE Reverse(bytes)

\* the value of an element: a scalar, or the real and the imaginary
\* component of a complex number
ValueOf(T, bytes, isLE) ==
    IF IsComplex(T)
    THEN LET h == Len(bytes) \div 2
         IN  <<ScalarValue(SubSeq(bytes, 1, h), isLE),
               ScalarValue(SubSeq(bytes, h + 1, Len(bytes)), isLE)>>
    ELSE <<ScalarValue(bytes, isLE)>>

\* C1: an array saved on a host and loaded on that same host, with the same
\* element kind, comes back equal in shape, layout flag and every element,
\* for every DType, every shape of rank >= 1 and both layouts.
C1_RoundTripSameHost ==
    (LoadedSameKind /\ file.carried = 0 /\ Len(saved.shape) >= 1)
        => (last.out = "ok" /\ SameAsSaved)

\* C1 on little-endian hosts alone, where the round trip does hold
C1_RoundTripLittleHost ==
    (LoadedSameKind /\ file.carried = 0 /\ Len(saved.shape) >= 1 /\ hostLE)
        => (last.out = "ok" /\ SameAsSaved)

\* C8: a file written on a host of one byte order and loaded on a host of
\* the other yields an array whose every element has the value that was
\* saved (for a complex element, the same real and the same imaginary
\* component), for every DType.
C8_PortableAcrossByteOrders ==
    (LoadedSameKind /\ file.carried = 1 /\ hostLE # saved.hostLE)
        => /\ last.out = "ok"
           /\ arr.shape_ = saved.shape
           /\ Len(arr.data_) = Len(saved.data)
           /\ \A k \in 1..Len(saved.data) :
                ValueOf(saved.T, arr.data_[k], hostLE)
                  = ValueOf(saved.T, saved.data[k], saved.hostLE)

\* C8 for the scalar kinds carried from a big-endian to a little-endian
\* host, where it does hold
C8_ScalarsToLittleHost ==
    (LoadedSameKind /\ file.carried = 1 /\ hostLE /\ ~saved.hostLE
       /\ ~IsComplex(saved.T))
        => /\ last.out = "ok"
           /\ Len(arr.data_) = Len(saved.data)
           /\ \A k \in 1..Len(saved.data) :
                ValueOf(saved.T, arr.data_[k], hostLE)
                  = ValueOf(saved.T, saved.data[k], saved.hostLE)

\* C8 for the complex kinds carried from a big-endian to a little-endian
\* host: the whole-element reversal exchanges the two components
C8_ComplexToLittleHost ==
    (LoadedSameKind /\ file.carried = 1 /\ hostLE /\ ~saved.hostLE
       /\ IsComplex(saved.T) /\ last.out = "ok")
        => \A k \in 1..Len(saved.data) :
             ValueOf(saved.T, arr.data_[k], hostLE)
               = ValueOf(saved.T, saved.data[k], saved.hostLE)

\* C10: loading a file that save wrote with one DType while requesting a
\* different one fails with the dtype-mismatch error and returns no array;
\* requesting the DType of the file does not fail with that error.
C10_DtypeMismatch ==
    (last.op = "load" /\ file.exists)
        => /\ last.T # saved.T
                => (last.out = "dtype_mismatch" /\ arr.origin # "load")
           /\ last.T = saved.T => last.out # "dtype_mismatch"

C10_Witness ==
    /\ last.op = "load" /\ file.exists
    /\ last.T = "INT32" /\ saved.T = "DOUBLE64"
    /\ last.out = "dtype_mismatch"

----------------------------------------------------------------------------
(* Claims about the container *)

\* the array was made by the shape constructor, the shape and data
\* constructor, or load
Created == arr.origin \in {"shape", "data", "load"}

\* the product of the extents of a shape of rank >= 1
Product(shape) == NumElements(shape)

\* C3: for every array created from a shape alone, from a shape plus data, or
\* by load, and after any sequence of reshape, reallocate, fill and element
\* writes, failed calls included, the number of stored elements equals the
\* product of the extents of the current shape.
C3_ElementCount ==
    Created => (Len(arr.shape_) >= 1 /\ Len(arr.data_) = Product(arr.shape_))

\* an array made by the shape constructor has been reallocated to four
\* elements in two axes
C3_Witness ==
    /\ arr.origin = "shape"
    /\ last.op = "reallocate" /\ last.out = "ok"
    /\ arr.shape_ = <<2, 2>> /\ Len(arr.data_) = 4

\* C4: no array object obtainable through the public interface (any public
\* constructor, load, then any sequence of reshape and reallocate) has an
\* empty shape, and an attempt to construct, reshape or reallocate with an
\* empty shape fails with an error.
C4_RankAtLeastOne ==
    /\ arr.origin # "none" => Len(arr.shape_) >= 1
    /\ (last.op \in {"construct_shape", "construct_data", "reshape", "reallocate"}
          /\ last.arg = <<>>) => last.out = "shape_error"

\* C5: reshape(new_shape) succeeds exactly when new_shape has rank >= 1 and
\* its product equals the current element count; on success only the shape
\* changes, the flat element sequence and the layout flag stay; on failure it
\* raises an error and shape, elements and layout all stay.
C5_ReshapeExact ==
    [][last'.op = "reshape" =>
         LET new_shape == last'.arg
             fits == IF Len(new_shape) >= 1
                     THEN Product(new_shape) = Len(arr.data_)
                     ELSE FALSE
         IN  /\ (last'.out = "ok") <=> fits
             /\ last'.out = "ok" =>
                  /\ arr'.shape_ = new_shape
                  /\ arr'.data_ = arr.data_
                  /\ arr'.c_continuous_ = arr.c_continuous_
             /\ last'.out # "ok" =>
                  /\ last'.out = "shape_error"
                  /\ arr'.shape_ = arr.shape_
                  /\ arr'.data_ = arr.data_
                  /\ arr'.c_continuous_ = arr.c_continuous_]_vars

\* four elements given in one axis have been reshaped to two axes
C5_Witness ==
    /\ last.op = "reshape" /\ last.out = "ok" /\ last.arg = <<2, 2>>
    /\ arr.origin = "data" /\ arr.shape_ = <<2, 2>>
    /\ arr.data_ = [k \in 1..4 |-> Elem(arr.T, k % 2)]

----------------------------------------------------------------------------
(* Addressing: index tuples on an array that is not modified *)

IndexShapes ==
    {s \in SeqsUpTo(0..MaxIndexExtent, MaxIndexRank) : Len(s) >= 1}

IndexTuples == SeqsUpTo(0..MaxIndexExtent, MaxIndexRank)

\* n elements that all differ: element k holds the number k
IndexData(T, n) == [k \in 1..n |-> MemBytes(k, size_of_DType(T), TRUE)]

\* the array is a constructed one whose elements all differ, or a default
\* constructed one
InitIndex ==
    /\ \/ \E s \in IndexShapes, c \in BOOLEAN :
            arr = NPArray_data("INT16", IndexData("INT16", NumElements(s)), s, c).arr
       \/ \E dims \in JunkDims, c \in BOOLEAN :
            arr = NPArray_default("INT16", dims, c)
    /\ file = NoFile
    /\ hostLE = TRUE
    /\ saved = NoSaved
    /\ last = NoCall
    /\ swp = NoSwap
    /\ mem = NoMem

\* no call has been made on the array yet
FirstCall == last.op = "none"

\* the operations are const and leave the array as it is: a later call
\* starts from the state the first one started from
NextIndex ==
    \/ FirstCall /\ \E form \in Forms, indices \in IndexTuples : LinearIndex(form, indices)
    \/ FirstCall /\ \E form \in Forms, indices \in IndexTuples : ReadAt(form, indices)
    \/ FirstCall /\ \E i \in 0..(MaxIndexExtent + 1) : FlatRead(i)

SpecIndex == InitIndex /\ [][NextIndex]_vars

----------------------------------------------------------------------------
(* Claims about addressing *)

\* the tuple has one index per axis and every index is below its extent
ValidTuple(shape, indices) ==
    /\ Len(indices) = Len(shape)
    /\ \A i \in 1..Len(shape) : indices[i] < shape[i]

\* the product of shape[j] for j in lo..hi
RECURSIVE ExtentProduct(_, _, _)
ExtentProduct(shape, lo, hi) ==
    IF lo > hi THEN 1 ELSE shape[lo] * ExtentProduct(shape, lo + 1, hi)

\* sum over i of indices[i] * product of shape[j] for j > i
RowMajorSum(shape, indices) ==
    SumTo([i \in 1..Len(shape) |->
             indices[i] * ExtentProduct(shape, i + 1, Len(shape))], Len(shape))

\* sum over i of indices[i] * product of shape[j] for j < i
ColumnMajorSum(shape, indices) ==
    SumTo([i \in 1..Len(shape) |->
             indices[i] * ExtentProduct(shape, 1, i - 1)], Len(shape))

\* C6: every index-tuple operation (element access and linear_index, vector
\* and variadic form) validates the tuple first: it fails with an indexing
\* error when the number of indices differs from the rank, with an
\* out-of-range error when some indices[i] >= shape[i], and then computes no
\* address and reads no element; a tuple of the right arity with every
\* indices[i] < shape[i] succeeds.
C6_BoundsChecking ==
    last.op \in {"linear_index", "read"} =>
        /\ Len(last.arg) # Len(arr.shape_) => last.out = "index_error"
        /\ (/\ Len(last.arg) = Len(arr.shape_)
            /\ \E i \in 1..Len(arr.shape_) : last.arg[i] >= arr.shape_[i])
             => last.out = "out_of_range"
        /\ last.out # "ok" => (last.addr = 0 - 1 /\ last.val = <<>>)
        /\ ValidTuple(arr.shape_, last.arg) => last.out = "ok"

\* C6 on the arrays made by the shape and data constructor
C6_BoundsCheckingConstructed ==
    (last.op \in {"linear_index", "read"} /\ arr.origin = "data") =>
        /\ Len(last.arg) # Len(arr.shape_) => last.out = "index_error"
        /\ (/\ Len(last.arg) = Len(arr.shape_)
            /\ \E i \in 1..Len(arr.shape_) : last.arg[i] >= arr.shape_[i])
             => last.out = "out_of_range"
        /\ last.out # "ok" => (last.addr = 0 - 1 /\ last.val = <<>>)
        /\ ValidTuple(arr.shape_, last.arg) => last.out = "ok"

\* C7: for every shape of rank >= 1 and every valid index tuple, the
\* row-major linear index is the sum over i of indices[i] * product of
\* shape[j] for j > i, and the column-major one the sum over i of
\* indices[i] * product of shape[j] for j < i; for shape [2,3] the index
\* (1,2) maps to 5 under RowMajor and to 4 under ColumnMajor.
C7_Linearization ==
    (/\ last.op = "linear_index"
     /\ Len(arr.shape_) >= 1
     /\ ValidTuple(arr.shape_, last.arg)) =>
        /\ last.out = "ok"
        /\ last.addr = IF arr.c_continuous_
                       THEN RowMajorSum(arr.shape_, last.arg)
                       ELSE ColumnMajorSum(arr.shape_, last.arg)
        /\ (arr.shape_ = <<2, 3>> /\ last.arg = <<1, 2>>) =>
             last.addr = IF arr.c_continuous_ THEN 5 ELSE 4

\* C7 with the column-major example as the formula gives it: for shape
\* [2,3] the index (1,2) maps to 5 under RowMajor and to 1 + 2*2 = 5 under
\* ColumnMajor.
C7_LinearizationAmended ==
    (/\ last.op = "linear_index"
     /\ Len(arr.shape_) >= 1
     /\ ValidTuple(arr.shape_, last.arg)) =>
        /\ last.out = "ok"
        /\ last.addr = IF arr.c_continuous_
                       THEN RowMajorSum(arr.shape_, last.arg)
                       ELSE ColumnMajorSum(arr.shape_, last.arg)
        /\ (arr.shape_ = <<2, 3>> /\ last.arg = <<1, 2>>) => last.addr = 5

\* linear_index(1, 2) has been called on a column-major array of shape [2,3]
C7_Witness ==
    /\ last.op = "linear_index" /\ last.form = "vector" /\ last.out = "ok"
    /\ arr.shape_ = <<2, 3>> /\ last.arg = <<1, 2>>
    /\ ~arr.c_continuous_ /\ last.addr = 5

----------------------------------------------------------------------------
(* The endianness utility on a buffer of its own *)

SwapSeeds == {1, 37}

\* len bytes that all differ
Pattern(seed, len) == [k \in 1..len |-> (seed * k) % 256]

\* a buffer of n elements of w bytes each
InitSwap ==
    /\ \E w \in 0..MaxSwapWidth, n \in 0..MaxSwapElems, seed \in SwapSeeds :
         swp = [data |-> Pattern(seed, n * w), n |-> n, w |-> w,
                orig |-> Pattern(seed, n * w), err |-> FALSE, calls |-> 0,
                via |-> "none"]
    /\ arr = NoArray
    /\ file = NoFile
    /\ hostLE = TRUE
    /\ saved = NoSaved
    /\ last = NoCall
    /\ mem = NoMem

\* swap_bytes(data, n, w)
SwapBytes ==
    /\ ~swp.err
    /\ swp.calls < MaxSwapCalls
    /\ swp.via \in {"none", "swap_bytes"}
    /\ LET r == swap_bytes(swp.data, swp.n, swp.w)
       IN  swp' = [swp EXCEPT !.data = r.data, !.err = r.err,
                              !.calls = @ + 1, !.via = "swap_bytes"]
    /\ UNCHANGED <<arr, file, hostLE, saved, last, mem>>

\* swap_two_bytes(data), swap_four_bytes(data), swap_eight_bytes(data) or
\* swap_sixteen_bytes(data), called on the first element of the buffer
SwapFixed ==
    /\ swp.w \in {2, 4, 8, 16}
    /\ swp.n >= 1
    /\ swp.calls < MaxSwapCalls
    /\ swp.via \in {"none", "fixed"}
    /\ LET head == SubSeq(swp.data, 1, swp.w)
           rest == SubSeq(swp.data, swp.w + 1, Len(swp.data))
           swapped == IF swp.w = 2 THEN swap_two_bytes(head)
                      ELSE IF swp.w = 4 THEN swap_four_bytes(head)
                      ELSE IF swp.w = 8 THEN swap_eight_bytes(head)
                      ELSE swap_sixteen_bytes(head)
       IN  swp' = [swp EXCEPT !.data = swapped \o rest, !.calls = @ + 1,
                              !.via = "fixed"]
    /\ UNCHANGED <<arr, file, hostLE, saved, last, mem>>

NextSwap == SwapBytes \/ SwapFixed

SpecSwap == InitSwap /\ [][NextSwap]_vars

----------------------------------------------------------------------------
(* Claims about the endianness utility *)

\* byte k (from 0) of element e (from 0) of a buffer of w-byte elements
ByteAt(buf, e, k, w) == buf[e * w + k + 1]

\* C9: for each width w in {2, 4, 8, 16} the fixed-width routine maps byte k
\* of the element to byte w-1-k for every k, so that applying it twice gives
\* the original bytes back; swap_bytes over n elements does this to each
\* element independently, and leaves a buffer of width 1 as it is.
C9_SwapInvolution ==
    /\ swp.via = "fixed" =>
         /\ Len(swp.data) = Len(swp.orig)
         /\ \A k \in 0..(swp.w - 1) :
              ByteAt(swp.data, 0, k, swp.w)
                = IF swp.calls % 2 = 1 THEN ByteAt(swp.orig, 0, swp.w - 1 - k, swp.w)
                  ELSE ByteAt(swp.orig, 0, k, swp.w)
         /\ \A j \in (swp.w + 1)..Len(swp.orig) : swp.data[j] = swp.orig[j]
    /\ (swp.via = "swap_bytes" /\ swp.w \in {2, 4, 8, 16}) =>
         /\ ~swp.err
         /\ Len(swp.data) = Len(swp.orig)
         /\ \A e \in 0..(swp.n - 1), k \in 0..(swp.w - 1) :
              ByteAt(swp.data, e, k, swp.w)
                = IF swp.calls % 2 = 1 THEN ByteAt(swp.orig, e, swp.w - 1 - k, swp.w)
                  ELSE ByteAt(swp.orig, e, k, swp.w)
    /\ (swp.via = "swap_bytes" /\ swp.w = 1) => (~swp.err /\ swp.data = swp.orig)

\* swap_bytes has run twice over two elements of sixteen bytes, which are
\* the original bytes again
C9_Witness ==
    /\ swp.via = "swap_bytes" /\ swp.calls = 2
    /\ swp.w = 16 /\ swp.n = 2
    /\ swp.data = swp.orig /\ swp.orig = Pattern(37, 32)

----------------------------------------------------------------------------
(* The header: arrays of few and of very many axes are saved *)

\* shapes whose header text is about as long as a 2-byte length field can
\* tell: HeaderRankSpan + 1 ranks up to MaxHeaderRank, every extent 1
LongShapes ==
    {Repeat(1, k) : k \in (MaxHeaderRank - HeaderRankSpan)..MaxHeaderRank}

HeaderTypes == {"DOUBLE64", "COMPLEX128"}

InitHeader ==
    /\ \E t \in HeaderTypes, s \in LongShapes \cup (Shapes \ {<<>>}), c \in BOOLEAN :
         arr = NPArray_data(t, [k \in 1..NumElements(s) |-> Elem(t, 1)], s, c).arr
    /\ file = NoFile
    /\ hostLE \in BOOLEAN
    /\ saved = NoSaved
    /\ last = NoCall
    /\ swp = NoSwap
    /\ mem = NoMem

\* the array is saved once
NextHeader == ~file.exists /\ Running /\ Save

SpecHeader == InitHeader /\ [][NextHeader]_vars

----------------------------------------------------------------------------
(* Claims about the header *)

\* the width of the length field that the version byte of the file announces
LengthFieldWidth(f) == IF f[7] = 1 THEN 2 ELSE 4

\* the length of the padded header text as the length field, little-endian
\* in the file, tells it
HeaderLength(f) == LittleValue(SubSeq(f, 9, 8 + LengthFieldWidth(f)))

\* magic, version, length field and padded header text
PayloadOffset(f) == 6 + 2 + LengthFieldWidth(f) + HeaderLength(f)

\* C2: in every file that save writes, whatever the length of the header text
\* and whichever major version (1 or 2) is selected, the payload begins at a
\* byte offset (6 magic bytes + 2 version bytes + the 2- or 4-byte length
\* field + the padded header text) that is a multiple of 64, and the padded
\* header text ends with a newline.
C2_HeaderPadding ==
    (last.op = "save" /\ last.out = "ok") =>
        /\ file.bytes[7] \in {1, 2}
        /\ PayloadOffset(file.bytes) % 64 = 0
        /\ file.bytes[PayloadOffset(file.bytes)] = 10
        /\ SubSeq(file.bytes, PayloadOffset(file.bytes) + 1, Len(file.bytes))
             = Flatten(saved.data)

\* C2 for the files of major version 1
C2_HeaderPaddingVersion1 ==
    (last.op = "save" /\ last.out = "ok" /\ file.bytes[7] = 1) =>
        /\ PayloadOffset(file.bytes) % 64 = 0
        /\ file.bytes[PayloadOffset(file.bytes)] = 10
        /\ SubSeq(file.bytes, PayloadOffset(file.bytes) + 1, Len(file.bytes))
             = Flatten(saved.data)

\* the number of header-text bytes in the file: what lies between the length
\* field and the payload
HeaderBytesEmitted(f) ==
    Len(f) - (6 + 2 + LengthFieldWidth(f)) - Len(Flatten(saved.data))

\* C13: save writes major version 1 exactly when the preamble before the
\* payload is at most 65535 bytes long and major version 2 otherwise; the
\* length field is 2 bytes wide for version 1 and 4 bytes wide for version 2
\* (the header text begins right behind it); and on hosts of either byte
\* order the little-endian value of the length field is the number of
\* header-text bytes emitted, padding and newline included.
C13_VersionAndLengthField ==
    (last.op = "save" /\ last.out = "ok") =>
        LET f == file.bytes
            w == LengthFieldWidth(f)
            emitted == HeaderBytesEmitted(f)
        IN  /\ f[7] \in {1, 2}
            /\ (f[7] = 1) <=> (6 + 2 + w + emitted <= 65535)
            /\ f[8 + w + 1] = 123
            /\ f[8 + w + emitted] = 10
            /\ HeaderLength(f) = emitted

\* a big-endian host has saved a file of major version 2
C13_Witness ==
    /\ last.op = "save" /\ last.out = "ok"
    /\ ~hostLE
    /\ file.bytes[7] = 2
    /\ 6 + 2 + 4 + HeaderLength(file.bytes) > 65535

----------------------------------------------------------------------------
(* Claims about widths the endianness utility does not support *)

\* C14: for every buffer, every element count (0 included) and every element
\* width outside {1, 2, 4, 8, 16}, swap_bytes fails with the error of an
\* unsupported width and leaves the buffer as it was; for every width in
\* {1, 2, 4, 8, 16} it does not fail.
C14_UnsupportedWidth ==
    swp.via = "swap_bytes" =>
        /\ swp.w \notin {1, 2, 4, 8, 16} => (swp.err /\ swp.data = swp.orig)
        /\ swp.w \in {1, 2, 4, 8, 16} => ~swp.err

\* C14 for the calls that have at least one byte to swap
C14_UnsupportedWidthWithBytes ==
    (swp.via = "swap_bytes" /\ swp.n * swp.w > 0) =>
        /\ swp.w \notin {1, 2, 4, 8, 16} => (swp.err /\ swp.data = swp.orig)
        /\ swp.w \in {1, 2, 4, 8, 16} => ~swp.err

----------------------------------------------------------------------------
(* Claims about addressing as a one-to-one map *)

\* the index along axis i that the flat address addr stands for
UnravelRowMajor(shape, addr) ==
    [i \in 1..Len(shape) |->
       (addr \div ExtentProduct(shape, i + 1, Len(shape))) % shape[i]]

UnravelColumnMajor(shape, addr) ==
    [i \in 1..Len(shape) |-> (addr \div ExtentProduct(shape, 1, i - 1)) % shape[i]]

\* C15: for every array whose extents are all >= 1 and for either layout,
\* linear_index on the valid index tuples is one-to-one onto 0..size-1: the
\* address of a valid tuple lies inside the buffer, the tuple can be told
\* from its address (so two tuples never share one), and element access by
\* the tuple gives the element that flat access gives at that address.
C15_LinearIndexBijection ==
    (/\ arr.origin = "data"
     /\ \A i \in 1..Len(arr.shape_) : arr.shape_[i] >= 1
     /\ ValidTuple(arr.shape_, last.arg)) =>
        /\ last.op \in {"linear_index", "read"} =>
             /\ last.out = "ok"
             /\ last.addr \in 0..(Len(arr.data_) - 1)
             /\ last.arg = IF arr.c_continuous_
                           THEN UnravelRowMajor(arr.shape_, last.addr)
                           ELSE UnravelColumnMajor(arr.shape_, last.addr)
        /\ last.op = "read" =>
             /\ last.addr = linear_index(arr, last.arg, last.form).addr
             /\ last.val = arr.data_[last.addr + 1]
             /\ last.val = IndexData(arr.T, Len(arr.data_))[last.addr + 1]

\* the last element of a column-major array of three axes has been read
C15_Witness ==
    /\ last.op = "read" /\ last.out = "ok" /\ last.form = "variadic"
    /\ arr.shape_ = <<2, 3, 2>> /\ ~arr.c_continuous_
    /\ last.arg = <<1, 2, 1>> /\ last.addr = 11
    /\ last.val = <<12, 0>>

----------------------------------------------------------------------------
(* Decoding: load is handed files that other programs wrote *)

\* the six bytes load_npy compares with "\x93NUMPY": the magic itself, and
\* the magic with one byte changed, once for each position
CraftedMagics ==
    {Magic} \cup {[Magic EXCEPT ![k] = (@ + 1) % 256] : k \in 1..6}

\* the byte file.read(&major_verison, 1) receives
CraftedMajors == {0, 1, 2, 3, 128}

\* the text descr_to_DType is handed: "i2", "b1", and outside the registry
\* "i3" and "I2"
CraftedDescrs == {<<105, 50>>, <<98, 49>>, <<105, 51>>, <<73, 50>>}

\* the text after "'shape': " that the shape loop of load_npy scans:
\* "(2,)", "(2,1)", "()", and the lists "(2,", "2,)", "(a,)", "(-1,)",
\* "(-1,0)", "(2x,)", "(2.5,)"
CraftedShapeTexts ==
    {<<40, 50, 44, 41>>, <<40, 50, 44, 49, 41>>, <<40, 41>>,
     <<40, 50, 44>>, <<50, 44, 41>>, <<40, 97, 44, 41>>,
     <<40, 45, 49, 44, 41>>, <<40, 45, 49, 44, 48, 41>>,
     <<40, 50, 120, 44, 41>>, <<40, 50, 46, 53, 44, 41>>}

\* the header text of a crafted file, in the layout load_npy searches:
\* "{'descr': '<D', 'fortran_order': False, 'shape': S, }\n"
CraftedHeader(descr, shape_text) ==
    TxtDescrOpen \o ChLess \o descr \o TxtDescrClose
    \o TxtFortranKey \o TxtFalseComma
    \o SubSeq(TxtShapeOpen, 1, 9) \o shape_text \o SubSeq(TxtShapeClose, 2, 4)
    \o ChNewline

\* the bytes of a crafted file as load_npy reads them: magic, the two version
\* bytes, the length of the header little-endian in two bytes for major
\* version 1 and in four otherwise, the header, and four bytes of payload
CraftedFile(magic, major, descr, shape_text) ==
    LET header == CraftedHeader(descr, shape_text)
    IN  magic \o <<major, 0>>
        \o MemBytes(Len(header), IF major = 1 THEN 2 ELSE 4, TRUE)
        \o header \o <<1, 0, 2, 0>>

\* what a crafted file was made of (history)
CraftedFrom(magic, major, descr, shape_text) ==
    [magic |-> magic, major |-> major, descr |-> descr,
     shape_text |-> shape_text]

InitDecode ==
    /\ arr = NoArray
    /\ \E m \in CraftedMagics, v \in CraftedMajors, d \in CraftedDescrs,
          s \in CraftedShapeTexts :
         /\ file = [exists |-> TRUE, bytes |-> CraftedFile(m, v, d, s),
                    carried |-> 0]
         /\ saved = CraftedFrom(m, v, d, s)
    /\ hostLE \in BOOLEAN
    /\ last = NoCall
    /\ swp = NoSwap
    /\ mem = NoMem

\* a process loads the file once
NextDecode == FirstCall /\ \E junk \in JunkSeqs : Load(junk)

SpecDecode == InitDecode /\ [][NextDecode]_vars

\* a load that got past the comparison of the magic
ReadLengthField == last.op = "load" /\ SubSeq(file.bytes, 1, 6) = Magic

\* C12: once the magic is accepted, load reads a length field of 2 bytes when
\* the major version byte is 1 and of 4 bytes for every other value of that
\* byte; on little-endian and on big-endian hosts alike the length it decodes
\* is the little-endian value of those bytes; and it then reads exactly that
\* many bytes of header.
C12_HeaderLengthDecoding ==
    ReadLengthField =>
        /\ mem.width = LengthFieldWidth(file.bytes)
        /\ mem.length_of_header = HeaderLength(file.bytes)
        /\ mem.header_read = mem.length_of_header

\* what the code does keep of C12: on a little-endian host, for the major
\* versions 1..127
C12_HeaderLengthDecodingLittleHost ==
    (ReadLengthField /\ hostLE /\ file.bytes[7] \in 1..127) =>
        /\ mem.width = LengthFieldWidth(file.bytes)
        /\ mem.length_of_header = HeaderLength(file.bytes)
        /\ mem.header_read = mem.length_of_header

\* the descr tokens of the registry: b1 B1 i2 i4 i8 u2 u4 u8 f4 f8 c8 c16
DescrTokens ==
    {<<98, 49>>, <<66, 49>>, <<105, 50>>, <<105, 52>>, <<105, 56>>,
     <<117, 50>>, <<117, 52>>, <<117, 56>>, <<102, 52>>, <<102, 56>>,
     <<99, 56>>, <<99, 49, 54>>}

\* a shape list with both parentheses and nothing between them but digits,
\* commas and spaces
ShapeListWellFormed(text) ==
    /\ Len(text) >= 2
    /\ text[1] = 40
    /\ text[Len(text)] = 41
    /\ \A k \in 2..(Len(text) - 1) : IsDigitCh(text[k]) \/ text[k] \in {44, 32}

\* the file breaks the format in its magic, its descr token or its shape list
StructuralViolation ==
    \/ saved.magic # Magic
    \/ saved.descr \notin DescrTokens
    \/ ~ShapeListWellFormed(saved.shape_text)

\* C11: decoding is all-or-nothing: a file whose 6-byte prefix differs from
\* the magic in any byte, whose descr token is outside the registry, or whose
\* shape list is malformed (a parenthesis missing, or an entry that is not a
\* non-negative integer) makes load fail with an error and yield no Array.
C11_AllOrNothing ==
    (last.op = "load" /\ StructuralViolation) =>
        /\ last.out \notin {"ok", UB}
        /\ arr = NoArray

\* what the code does keep of C11: a file with a wrong magic byte or an
\* unknown descr token is never decoded into an Array
C11_MagicAndDescrRejected ==
    (last.op = "load"
       /\ (saved.magic # Magic \/ saved.descr \notin DescrTokens)) =>
        /\ last.out # "ok"
        /\ arr = NoArray

\* how many times the last load released the buffer b
TimesReleased(b) ==
    Cardinality({k \in DOMAIN mem.released : mem.released[k] = b})

\* every buffer the last load allocated was released exactly once, and
\* nothing else was released
AllReleasedOnce ==
    /\ \A k \in DOMAIN mem.allocated : TimesReleased(mem.allocated[k]) = 1
    /\ \A k \in DOMAIN mem.released :
         \E j \in DOMAIN mem.allocated : mem.allocated[j] = mem.released[k]

\* C16: on every exit path of load -- success, bad magic, unknown descr,
\* dtype mismatch, invalid shape, shape/data mismatch -- every raw buffer it
\* allocated (magic, header, payload) has been released exactly once.
C16_BuffersReleasedOnce ==
    (last.op = "load" /\ last.out # UB) => AllReleasedOnce

\* what the code does keep of C16: a load that returns an Array has released
\* its three buffers exactly once
C16_ReleasedOnSuccess ==
    (last.op = "load" /\ last.out = "ok") =>
        /\ AllReleasedOnce
        /\ Len(mem.allocated) = 3


=============================================================================
